---- MODULE Spec2Model ----
(***************************************************************************)
(* Model of class BankersAlgorithm (src/Banker.cpp): the resource state,   *)
(* requestResources, releaseResources and isSafeState.                     *)
(*                                                                         *)
(* A manager is a record [allocation, max, available, resources,           *)
(* completed]; matrices and vectors are functions over 0..n-1, as the      *)
(* source indexes them.  Every method is an operator from a manager (and   *)
(* the call's arguments) to the manager after the call and the value       *)
(* returned; the actions apply the operators to the variables.             *)
(***************************************************************************)
EXTENDS Integers

\* ---- bounds of the model ------------------------------------------------
\* Processes and resource types of the manager.
NumProcesses == 3
NumResources == 2
\* Largest claim and largest initially available amount handed to the constructor.
MaxClaim == 1
MaxAvail == 1
\* Largest entry of a request or release vector; it exceeds what a process
\* with a small claim holds, so over-claims and over-releases are called.
MaxAmount == 1
\* Calls made on one manager.
MaxCalls == 2
\* Caller threads sharing one manager.
NumThreads == 2

Procs == 0 .. (NumProcesses - 1)
Res == 0 .. (NumResources - 1)
Amounts == [Res -> 0 .. MaxAmount]
Threads == 1 .. NumThreads

VARIABLES allocation, max, available, resources, completed,
          op, pid, vec, ret, calls,
          mtx, pc, local

state == <<allocation, max, available, resources, completed>>
\* The mutex, and each caller thread's position and locals inside a call.
threadVars == <<mtx, pc, local>>
vars == <<allocation, max, available, resources, completed, op, pid, vec, ret, calls,
          mtx, pc, local>>

\* The manager held in the variables.
Self ==
    [allocation |-> allocation, max |-> max, available |-> available,
     resources |-> resources, completed |-> completed]

\* ---- constructor (Banker.cpp:20-35) -------------------------------------
RECURSIVE ColumnSum(_, _, _)
ColumnSum(alloc, j, i) ==
    IF i = NumProcesses THEN 0 ELSE alloc[i][j] + ColumnSum(alloc, j, i + 1)

BankersAlgorithm(alloc, mx, avail) ==
    [allocation |-> alloc, max |-> mx, available |-> avail,
     resources |-> [j \in Res |-> ColumnSum(alloc, j, 0)],
     completed |-> [i \in Procs |-> FALSE]]

\* ---- isSafeState (Banker.cpp:107-173) -----------------------------------
NeedMatrix(b) ==
    [i \in Procs |-> [j \in Res |-> b.max[i][j] - b.allocation[i][j]]]

\* A scan that compares only resource 0 (the loop left after its first turn).
CanExecuteFirstOnly(need, work, i, j) == need[i][0] <= work[0]

\* The inner loop over j with its break: can process i run on work?
RECURSIVE CanExecute(_, _, _, _)
CanExecute(need, work, i, j) ==
    IF j = NumResources THEN TRUE
    ELSE IF need[i][j] > work[j] THEN FALSE
    ELSE CanExecute(need, work, i, j + 1)

\* The for loop over i of one pass, from index i on.
RECURSIVE ScanProcesses(_, _, _, _)
ScanProcesses(b, need, st, i) ==
    IF i = NumProcesses THEN st
    ELSE IF st.safe[i] THEN ScanProcesses(b, need, st, i + 1)
    ELSE IF CanExecute(need, st.work, i, 0)
         THEN ScanProcesses(b, need,
                  [safe |-> [st.safe EXCEPT ![i] = TRUE],
                   work |-> [j \in Res |-> st.work[j] + b.allocation[i][j]],
                   finished |-> FALSE,
                   count |-> st.count + 1], i + 1)
         ELSE ScanProcesses(b, need, st, i + 1)

\* A scan that makes one pass only (the do-while never repeats).
SinglePass(b, need, st) == ScanProcesses(b, need, [st EXCEPT !.finished = TRUE], 0)

\* The do-while loop: passes until one marks nothing or count reaches n.
RECURSIVE SafetyPasses(_, _, _)
SafetyPasses(b, need, st) ==
    LET after == ScanProcesses(b, need, [st EXCEPT !.finished = TRUE], 0)
    IN  IF ~after.finished /\ after.count < NumProcesses
        THEN SafetyPasses(b, need, after)
        ELSE after

isSafeState(b) ==
    LET need == NeedMatrix(b)
        start == [safe |-> [i \in Procs |-> FALSE], work |-> b.available,
                  finished |-> TRUE, count |-> 0]
        final == SafetyPasses(b, need, start)
    IN  IF final.count < NumProcesses THEN FALSE
        ELSE \A i \in Procs : final.safe[i]

\* ---- requestResources (Banker.cpp:37-89) --------------------------------
\* A first loop that refuses at the boundary too (>= written for >).
RequestRefusedAtBoundary(b, processId, request, i) ==
    \E k \in Res :
        \/ request[k] >= b.max[processId][k] - b.allocation[processId][k]
        \/ request[k] >= b.available[k]

\* The first loop: TRUE when some request[i] makes the call return false.
RECURSIVE RequestRefused(_, _, _, _)
RequestRefused(b, processId, request, i) ==
    IF i = NumResources THEN FALSE
    ELSE IF \/ request[i] > b.max[processId][i] - b.allocation[processId][i]
            \/ request[i] > b.available[i]
         THEN TRUE
         ELSE RequestRefused(b, processId, request, i + 1)

\* The temporary manager the safety check runs on (lines 50-64).
TempBanker(b, processId, request) ==
    BankersAlgorithm(
        [b.allocation EXCEPT ![processId] =
            [i \in Res |-> b.allocation[processId][i] + request[i]]],
        b.max,
        [i \in Res |-> b.available[i] - request[i]])

\* The state written on a grant (lines 71-81): the temporary vectors are
\* stored, then the request is added back to available and resources.
Granted(b, processId, request) ==
    LET tempAllocation == [b.allocation EXCEPT ![processId] =
                              [i \in Res |-> b.allocation[processId][i] + request[i]]]
        tempAvailable == [i \in Res |-> b.available[i] - request[i]]
        tempResources == [i \in Res |-> b.resources[i] - request[i]]
    IN  [allocation |-> tempAllocation,
         max |-> b.max,
         available |-> [i \in Res |-> tempAvailable[i] + request[i]],
         resources |-> [i \in Res |-> tempResources[i] + request[i]],
         completed |-> [b.completed EXCEPT ![processId] = TRUE]]

\* A request that writes the tentative vectors to the manager before the
\* safety check and does not restore them on an unsafe result.
requestResourcesNoRollback(b, processId, request) ==
    IF RequestRefused(b, processId, request, 0)
    THEN [after |-> b, ret |-> "false"]
    ELSE IF isSafeState(TempBanker(b, processId, request))
         THEN [after |-> Granted(b, processId, request), ret |-> "true"]
         ELSE [after |-> [b EXCEPT
                             !.allocation = TempBanker(b, processId, request).allocation,
                             !.available = TempBanker(b, processId, request).available],
               ret |-> "false"]

requestResources(b, processId, request) ==
    IF RequestRefused(b, processId, request, 0)
    THEN [after |-> b, ret |-> "false"]
    ELSE IF isSafeState(TempBanker(b, processId, request))
         THEN [after |-> Granted(b, processId, request), ret |-> "true"]
         ELSE [after |-> b, ret |-> "false"]

\* ---- releaseResources (Banker.cpp:91-105) -------------------------------
\* A release that takes the amounts from available (-= written for +=).
releaseResourcesFromAvailable(b, processId, release) ==
    [after |->
        [allocation |-> [b.allocation EXCEPT ![processId] =
                            [i \in Res |-> b.allocation[processId][i] - release[i]]],
         max |-> b.max,
         available |-> [i \in Res |-> b.available[i] - release[i]],
         resources |-> [i \in Res |-> b.resources[i] + release[i]],
         completed |-> [b.completed EXCEPT ![processId] = FALSE]],
     ret |-> "void"]

releaseResources(b, processId, release) ==
    [after |->
        [allocation |-> [b.allocation EXCEPT ![processId] =
                            [i \in Res |-> b.allocation[processId][i] - release[i]]],
         max |-> b.max,
         available |-> [i \in Res |-> b.available[i] + release[i]],
         resources |-> [i \in Res |-> b.resources[i] + release[i]],
         completed |-> [b.completed EXCEPT ![processId] = FALSE]],
     ret |-> "void"]

\* ---- caller threads -----------------------------------------------------
ZeroVec == [j \in Res |-> 0]

ZeroBanker == BankersAlgorithm([i \in Procs |-> ZeroVec], [i \in Procs |-> ZeroVec], ZeroVec)

\* The locals of isSafeState before its first pass (lines 112-126).
ScanStart(avail) ==
    [safe |-> [i \in Procs |-> FALSE], work |-> avail, finished |-> TRUE, count |-> 0]

\* The value isSafeState returns after its last pass (lines 161-172).
ScanResult(st) ==
    IF st.count < NumProcesses THEN FALSE ELSE \A i \in Procs : st.safe[i]

\* The locals of a thread that is in no call.  snap is the manager as it was
\* when the thread took the mutex; raised counts the notifications the call
\* has raised.
IdleLocal ==
    [op |-> "none", processId |-> 0, vec |-> ZeroVec, i |-> 0,
     snap |-> ZeroBanker, temp |-> ZeroBanker, need |-> NeedMatrix(ZeroBanker),
     st |-> ScanStart(ZeroVec), ret |-> "void", raised |-> 0]

ThreadsIdle ==
    /\ mtx = 0
    /\ pc = [t \in Threads |-> "idle"]
    /\ local = [t \in Threads |-> IdleLocal]

\* ---- the state machine --------------------------------------------------
\* Construction from caller-supplied matrices with 0 <= allocation <= max
\* and available >= 0.
Init ==
    /\ max \in [Procs -> [Res -> 0 .. MaxClaim]]
    /\ allocation \in [Procs -> [Res -> 0 .. MaxClaim]]
    /\ \A i \in Procs : \A j \in Res : allocation[i][j] <= max[i][j]
    /\ available \in [Res -> 0 .. MaxAvail]
    /\ resources = BankersAlgorithm(allocation, max, available).resources
    /\ completed = BankersAlgorithm(allocation, max, available).completed
    /\ op = "new"
    /\ pid = 0
    /\ vec = [j \in Res |-> 0]
    /\ ret = "void"
    /\ calls = 0
    /\ ThreadsIdle

Store(b) ==
    /\ allocation' = b.allocation
    /\ max' = b.max
    /\ available' = b.available
    /\ resources' = b.resources
    /\ completed' = b.completed

RequestCall(processId, request) ==
    /\ calls < MaxCalls
    /\ UNCHANGED threadVars
    /\ LET r == requestResources(Self, processId, request)
       IN  Store(r.after) /\ ret' = r.ret
    /\ op' = "requestResources"
    /\ pid' = processId
    /\ vec' = request
    /\ calls' = calls + 1

ReleaseCall(processId, release) ==
    /\ calls < MaxCalls
    /\ UNCHANGED threadVars
    /\ LET r == releaseResources(Self, processId, release)
       IN  Store(r.after) /\ ret' = r.ret
    /\ op' = "releaseResources"
    /\ pid' = processId
    /\ vec' = release
    /\ calls' = calls + 1

\* A safety check whose work vector is a reference to available, not a copy
\* of it: the scan's additions to work are left in available.
SafeCallWorkAliased ==
    /\ calls < MaxCalls
    /\ UNCHANGED threadVars
    /\ ret' = IF isSafeState(Self) THEN "true" ELSE "false"
    /\ op' = "isSafeState"
    /\ pid' = 0
    /\ vec' = [j \in Res |-> 0]
    /\ calls' = calls + 1
    /\ available' = SafetyPasses(Self, NeedMatrix(Self),
                         [safe |-> [i \in Procs |-> FALSE], work |-> available,
                          finished |-> TRUE, count |-> 0]).work
    /\ UNCHANGED <<allocation, max, resources, completed>>

SafeCall ==
    /\ calls < MaxCalls
    /\ UNCHANGED threadVars
    /\ ret' = IF isSafeState(Self) THEN "true" ELSE "false"
    /\ op' = "isSafeState"
    /\ pid' = 0
    /\ vec' = [j \in Res |-> 0]
    /\ calls' = calls + 1
    /\ UNCHANGED state

Request == \E processId \in Procs : \E request \in Amounts : RequestCall(processId, request)

Release == \E processId \in Procs : \E release \in Amounts : ReleaseCall(processId, release)

Next == Request \/ Release \/ SafeCall

Spec == Init /\ [][Next]_vars

\* ---- callers that release no more than the process holds ---------------
ReleaseHeld ==
    \E processId \in Procs : \E release \in Amounts :
        /\ \A j \in Res : release[j] <= allocation[processId][j]
        /\ ReleaseCall(processId, release)

HeldNext == Request \/ ReleaseHeld \/ SafeCall

\* A manager constructed in a state that isSafeState() finds safe.
SafeInit == Init /\ isSafeState(Self)

SafeRunSpec == SafeInit /\ [][HeldNext]_vars

\* A manager constructed with MaxAvail units of every resource in total,
\* held or available.
FixedCapacityInit ==
    /\ Init
    /\ \A j \in Res : ColumnSum(allocation, j, 0) + available[j] = MaxAvail

FixedCapacitySpec == FixedCapacityInit /\ [][HeldNext]_vars

\* ---- calls with a processId outside [0, numProcesses) -------------------
\* Neither method checks processId: max[processId], allocation[processId]
\* and completed[processId] are accesses outside the vectors, which the
\* language leaves undefined.  The outcomes modelled: the access faults and
\* the program ends ("crash"), or it reads and writes memory outside the
\* manager and the call carries on with the members it indexes in range.
OutOfRange == {-1, NumProcesses}

\* requestResources, lines 42-48 with an arbitrary value read for
\* max[processId][i] - allocation[processId][i]: request[i] > available[i]
\* still refuses; otherwise the result is that of the safety check on the
\* rows in range, or false when the value read refuses.  A grant stores the
\* in-range rows unchanged and adds the request back to available.
RequestUnknown(processId, request) ==
    /\ calls < MaxCalls
    /\ UNCHANGED threadVars
    /\ op' = "requestResources"
    /\ pid' = processId
    /\ vec' = request
    /\ UNCHANGED state
    /\ \/ ret' = "crash" /\ calls' = MaxCalls
       \/ ret' = "false" /\ calls' = calls + 1
       \/ /\ \A i \in Res : request[i] <= available[i]
          /\ isSafeState(BankersAlgorithm(allocation, max,
                             [i \in Res |-> available[i] - request[i]]))
          /\ ret' = "true"
          /\ calls' = calls + 1

\* releaseResources, lines 96-104: the writes to available and resources are
\* in range and happen unless the access to allocation[processId] faults.
ReleaseUnknown(processId, release) ==
    /\ calls < MaxCalls
    /\ UNCHANGED threadVars
    /\ op' = "releaseResources"
    /\ pid' = processId
    /\ vec' = release
    /\ \/ ret' = "crash" /\ calls' = MaxCalls /\ UNCHANGED state
       \/ /\ ret' = "void"
          /\ calls' = calls + 1
          /\ available' = [i \in Res |-> available[i] + release[i]]
          /\ resources' = [i \in Res |-> resources[i] + release[i]]
          /\ UNCHANGED <<allocation, max, completed>>

UnknownProcessCall ==
    \E processId \in OutOfRange : \E v \in Amounts :
        RequestUnknown(processId, v) \/ ReleaseUnknown(processId, v)

UnknownNext == Next \/ UnknownProcessCall

UnknownSpec == Init /\ [][UnknownNext]_vars

\* ---- caller threads, one step at a time ---------------------------------
\* Thread t enters requestResources (line 37) for a process of the manager.
StartRequest(t, processId, request) ==
    /\ calls < MaxCalls
    /\ pc[t] = "idle"
    /\ pc' = [pc EXCEPT ![t] = "lock"]
    /\ local' = [local EXCEPT ![t] = [IdleLocal EXCEPT !.op = "requestResources",
                                                      !.processId = processId,
                                                      !.vec = request]]
    /\ calls' = calls + 1
    /\ UNCHANGED <<state, op, pid, vec, ret, mtx>>

\* Thread t enters releaseResources (line 91).
StartRelease(t, processId, release) ==
    /\ calls < MaxCalls
    /\ pc[t] = "idle"
    /\ pc' = [pc EXCEPT ![t] = "lock"]
    /\ local' = [local EXCEPT ![t] = [IdleLocal EXCEPT !.op = "releaseResources",
                                                      !.processId = processId,
                                                      !.vec = release]]
    /\ calls' = calls + 1
    /\ UNCHANGED <<state, op, pid, vec, ret, mtx>>

\* Thread t enters the public isSafeState (line 107), which takes no lock.
StartQuery(t) ==
    /\ calls < MaxCalls
    /\ pc[t] = "idle"
    /\ pc' = [pc EXCEPT ![t] = "q_work"]
    /\ local' = [local EXCEPT ![t] = [IdleLocal EXCEPT !.op = "isSafeState"]]
    /\ calls' = calls + 1
    /\ UNCHANGED <<state, op, pid, vec, ret, mtx>>

\* A lock step that does not wait for the holder to leave.
LockNoWait(t) ==
    /\ pc[t] = "lock"
    /\ mtx' = t
    /\ pc' = [pc EXCEPT ![t] = IF local[t].op = "requestResources" THEN "check" ELSE "release"]
    /\ local' = [local EXCEPT ![t].snap = Self]
    /\ UNCHANGED <<state, op, pid, vec, ret, calls>>

\* unique_lock<mutex> lock(mtx) (lines 39 and 93): blocks while the mutex is
\* held.  snap records the manager as the call found it.
Lock(t) ==
    /\ pc[t] = "lock"
    /\ mtx = 0
    /\ mtx' = t
    /\ pc' = [pc EXCEPT ![t] = IF local[t].op = "requestResources" THEN "check" ELSE "release"]
    /\ local' = [local EXCEPT ![t].snap = Self]
    /\ UNCHANGED <<state, op, pid, vec, ret, calls>>

\* Lines 42-64: the refusal loop, then the temporary manager.
ReqCheck(t) ==
    /\ pc[t] = "check"
    /\ IF RequestRefused(Self, local[t].processId, local[t].vec, 0)
       THEN /\ pc' = [pc EXCEPT ![t] = "unlock"]
            /\ local' = [local EXCEPT ![t].ret = "false"]
       ELSE LET temp == TempBanker(Self, local[t].processId, local[t].vec)
            IN  /\ pc' = [pc EXCEPT ![t] = "scan"]
                /\ local' = [local EXCEPT ![t].temp = temp,
                                          ![t].need = NeedMatrix(temp),
                                          ![t].st = ScanStart(temp.available)]
    /\ UNCHANGED <<state, op, pid, vec, ret, calls, mtx>>

\* Line 67: one pass of the do-while loop of tempBanker.isSafeState().
ReqScan(t) ==
    /\ pc[t] = "scan"
    /\ LET after == ScanProcesses(local[t].temp, local[t].need,
                                  [local[t].st EXCEPT !.finished = TRUE], 0)
       IN  /\ local' = [local EXCEPT ![t].st = after]
           /\ pc' = [pc EXCEPT ![t] = IF ~after.finished /\ after.count < NumProcesses
                                       THEN "scan" ELSE "decide"]
    /\ UNCHANGED <<state, op, pid, vec, ret, calls, mtx>>

\* Lines 69-74 and 84-87: commit the temporaries when the scan said safe.
ReqDecide(t) ==
    /\ pc[t] = "decide"
    /\ IF ScanResult(local[t].st)
       THEN /\ allocation' = local[t].temp.allocation
            /\ available' = local[t].temp.available
            /\ resources' = [j \in Res |-> resources[j] - local[t].vec[j]]
            /\ completed' = [completed EXCEPT ![local[t].processId] = TRUE]
            /\ pc' = [pc EXCEPT ![t] = "addback"]
            /\ local' = [local EXCEPT ![t].i = 0]
       ELSE /\ UNCHANGED <<allocation, available, resources, completed>>
            /\ pc' = [pc EXCEPT ![t] = "unlock"]
            /\ local' = [local EXCEPT ![t].ret = "false"]
    /\ UNCHANGED <<max, op, pid, vec, ret, calls, mtx>>

\* Lines 77-81: one turn of the loop that adds the request back.
ReqAddBack(t) ==
    /\ pc[t] = "addback"
    /\ LET i == local[t].i
       IN  /\ available' = [available EXCEPT ![i] = @ + local[t].vec[i]]
           /\ resources' = [resources EXCEPT ![i] = @ + local[t].vec[i]]
           /\ IF i + 1 = NumResources
              THEN /\ pc' = [pc EXCEPT ![t] = "unlock"]
                   /\ local' = [local EXCEPT ![t].i = i + 1, ![t].ret = "true"]
              ELSE /\ pc' = pc
                   /\ local' = [local EXCEPT ![t].i = i + 1]
    /\ UNCHANGED <<allocation, max, completed, op, pid, vec, ret, calls, mtx>>

\* Lines 96-101: one turn of the release loop.
RelLoop(t) ==
    /\ pc[t] = "release"
    /\ LET i == local[t].i
           p == local[t].processId
       IN  /\ allocation' = [allocation EXCEPT ![p][i] = @ - local[t].vec[i]]
           /\ available' = [available EXCEPT ![i] = @ + local[t].vec[i]]
           /\ resources' = [resources EXCEPT ![i] = @ + local[t].vec[i]]
           /\ pc' = [pc EXCEPT ![t] = IF i + 1 = NumResources THEN "notify" ELSE "release"]
           /\ local' = [local EXCEPT ![t].i = i + 1]
    /\ UNCHANGED <<max, completed, op, pid, vec, ret, calls, mtx>>

\* A release that returns without line 104.
RelNotifyMissing(t) ==
    /\ pc[t] = "notify"
    /\ completed' = [completed EXCEPT ![local[t].processId] = FALSE]
    /\ pc' = [pc EXCEPT ![t] = "unlock"]
    /\ local' = [local EXCEPT ![t].ret = "void"]
    /\ UNCHANGED <<allocation, max, available, resources, op, pid, vec, ret, calls, mtx>>

\* Lines 103-104: completed[processId] = false; cv.notify_all().
RelNotify(t) ==
    /\ pc[t] = "notify"
    /\ completed' = [completed EXCEPT ![local[t].processId] = FALSE]
    /\ pc' = [pc EXCEPT ![t] = "unlock"]
    /\ local' = [local EXCEPT ![t].ret = "void", ![t].raised = @ + 1]
    /\ UNCHANGED <<allocation, max, available, resources, op, pid, vec, ret, calls, mtx>>

\* A return that frees the mutex only on the path of a grant or a release,
\* as explicit lock()/unlock() calls with the early returns left out would.
UnlockOnGrantOnly(t) ==
    /\ pc[t] = "unlock"
    /\ mtx' = IF local[t].ret = "false" THEN mtx ELSE 0
    /\ pc' = [pc EXCEPT ![t] = "idle"]
    /\ op' = local[t].op
    /\ pid' = local[t].processId
    /\ vec' = local[t].vec
    /\ ret' = local[t].ret
    /\ local' = [local EXCEPT ![t] = IdleLocal]
    /\ UNCHANGED <<state, calls>>

\* The return statements of lines 46, 83 and 87 and the end of
\* releaseResources (line 105): the destructor of lock frees the mutex.
Unlock(t) ==
    /\ pc[t] = "unlock"
    /\ mtx' = 0
    /\ pc' = [pc EXCEPT ![t] = "idle"]
    /\ op' = local[t].op
    /\ pid' = local[t].processId
    /\ vec' = local[t].vec
    /\ ret' = local[t].ret
    /\ local' = [local EXCEPT ![t] = IdleLocal]
    /\ UNCHANGED <<state, calls>>

\* Line 114 in the public call: work = available, read without the mutex.
\* The reads of the unlocked call race with the writes of the locked calls;
\* each read is modelled as returning the value stored at the moment of the
\* step, one of the outcomes the race allows.
QueryWork(t) ==
    /\ pc[t] = "q_work"
    /\ pc' = [pc EXCEPT ![t] = "q_need"]
    /\ local' = [local EXCEPT ![t].st = ScanStart(available)]
    /\ UNCHANGED <<state, op, pid, vec, ret, calls, mtx>>

\* Lines 117-123 in the public call: need is computed from allocation.
QueryNeed(t) ==
    /\ pc[t] = "q_need"
    /\ pc' = [pc EXCEPT ![t] = "q_scan"]
    /\ local' = [local EXCEPT ![t].need = NeedMatrix(Self)]
    /\ UNCHANGED <<state, op, pid, vec, ret, calls, mtx>>

\* Lines 128-172 in the public call: one pass of the do-while loop, reading
\* allocation (line 153) as it is now; the last pass fixes the return value.
QueryScan(t) ==
    /\ pc[t] = "q_scan"
    /\ LET after == ScanProcesses(Self, local[t].need,
                                  [local[t].st EXCEPT !.finished = TRUE], 0)
       IN  IF ~after.finished /\ after.count < NumProcesses
           THEN /\ local' = [local EXCEPT ![t].st = after]
                /\ pc' = pc
           ELSE /\ local' = [local EXCEPT ![t].st = after,
                                          ![t].ret = IF ScanResult(after) THEN "true" ELSE "false"]
                /\ pc' = [pc EXCEPT ![t] = "q_return"]
    /\ UNCHANGED <<state, op, pid, vec, ret, calls, mtx>>

\* The return of the public isSafeState.
QueryReturn(t) ==
    /\ pc[t] = "q_return"
    /\ pc' = [pc EXCEPT ![t] = "idle"]
    /\ op' = "isSafeState"
    /\ pid' = 0
    /\ vec' = ZeroVec
    /\ ret' = local[t].ret
    /\ local' = [local EXCEPT ![t] = IdleLocal]
    /\ UNCHANGED <<state, calls, mtx>>

\* Thread t is the caller acting for process t - 1.
ThreadCall(t) ==
    \/ \E request \in Amounts : StartRequest(t, t - 1, request)
    \/ \E release \in Amounts : StartRelease(t, t - 1, release)
    \/ StartQuery(t)

\* The steps a thread takes on its own once it is inside a call.
ThreadStep(t) ==
    \/ Lock(t)
    \/ ReqCheck(t)
    \/ ReqScan(t)
    \/ ReqDecide(t)
    \/ ReqAddBack(t)
    \/ RelLoop(t)
    \/ RelNotify(t)
    \/ Unlock(t)
    \/ QueryWork(t)
    \/ QueryNeed(t)
    \/ QueryScan(t)
    \/ QueryReturn(t)

ThreadNext == \E t \in Threads : ThreadCall(t) \/ ThreadStep(t)

\* Managers of MaxAvail units of each resource whose processes all declare
\* the full claim.
ThreadInit ==
    /\ FixedCapacityInit
    /\ \A i \in Procs : \A j \in Res : max[i][j] = MaxClaim

ThreadSpec == ThreadInit /\ [][ThreadNext]_vars

\* Fair scheduling: a thread that can take a step is not suspended forever.
FairThreadSpec == ThreadSpec /\ \A t \in Threads : WF_vars(ThreadStep(t))

\* ---- definitions used by the properties ---------------------------------
\* The manager held in the variables after the step.
SelfAfter ==
    [allocation |-> allocation', max |-> max', available |-> available',
     resources |-> resources', completed |-> completed']

\* Units of resource j held by all processes together.
Held(b, j) == ColumnSum(b.allocation, j, 0)

\* The orders in which all processes can be run: one process per position.
Orders == {f \in [Procs -> Procs] : \A q \in Procs : \E k \in Procs : f[k] = q}

\* work at position k of an order: available plus the allocation of every
\* process run before position k.
RECURSIVE WorkAt(_, _, _)
WorkAt(b, order, k) ==
    IF k = 0 THEN b.available
    ELSE [j \in Res |-> WorkAt(b, order, k - 1)[j] + b.allocation[order[k - 1]][j]]

\* Each process's need is covered by work at its turn.
SafeOrder(b, order) ==
    \A k \in Procs : \A j \in Res :
        b.max[order[k]][j] - b.allocation[order[k]][j] <= WorkAt(b, order, k)[j]

ExistsSafeOrder(b) == \E order \in Orders : SafeOrder(b, order)

\* 0 <= allocation <= max and available >= 0.
WellFormed(b) ==
    /\ \A i \in Procs : \A j \in Res :
           0 <= b.allocation[i][j] /\ b.allocation[i][j] <= b.max[i][j]
    /\ \A j \in Res : b.available[j] >= 0

\* The state a request asks for: allocation[p] increased by demand and
\* available decreased by demand.
Hypothetical(b, p, demand) ==
    [b EXCEPT !.allocation[p] = [j \in Res |-> b.allocation[p][j] + demand[j]],
              !.available = [j \in Res |-> b.available[j] - demand[j]]]

\* The labels at which a thread is inside the locked part of a call.
Critical == {"check", "scan", "decide", "addback", "release", "notify", "unlock"}

\* The call thread t is in, run as one step on the manager it found.
AtomicCall(t) ==
    IF local[t].op = "requestResources"
    THEN requestResources(local[t].snap, local[t].processId, local[t].vec)
    ELSE releaseResources(local[t].snap, local[t].processId, local[t].vec)

SafeValue(b) == IF isSafeState(b) THEN "true" ELSE "false"

\* ---- C1 -----------------------------------------------------------------
\* C1: after a requestResources call that returned true, isSafeState() on
\* the manager's real state returns true.
AdmissionImpliesSafety ==
    (op = "requestResources" /\ ret = "true") => isSafeState(Self)

\* ---- C2 -----------------------------------------------------------------
\* C2: for every resource, the units held by all processes plus the units
\* available are the same before and after a granted request and a release.
Conservation ==
    [][((op' = "requestResources" /\ ret' = "true") \/ op' = "releaseResources")
        => \A j \in Res :
               Held(SelfAfter, j) + available'[j] = Held(Self, j) + available[j]]_vars

\* ---- C3 -----------------------------------------------------------------
\* C3: a granted request leaves allocation[p] increased by the demand,
\* available decreased by the demand and every other allocation row as it was.
GrantCommitsHypothetical ==
    [][(op' = "requestResources" /\ ret' = "true")
        => /\ allocation' = Hypothetical(Self, pid', vec').allocation
           /\ available' = Hypothetical(Self, pid', vec').available]_vars

\* ---- C4 -----------------------------------------------------------------
\* C4: a requestResources call that returns false leaves allocation,
\* available, resources and completed as they were before the call.
DenialImpliesNoMutation ==
    [][(op' = "requestResources" /\ ret' = "false")
        => /\ allocation' = allocation
           /\ available' = available
           /\ resources' = resources
           /\ completed' = completed]_vars

\* A request within the remaining claim and within available, for at least
\* one unit, was denied: the hypothetical state was unsafe.
DeniedAsUnsafe ==
    /\ op = "requestResources"
    /\ ret = "false"
    /\ \E j \in Res : vec[j] > 0
    /\ \A j \in Res : /\ vec[j] <= max[pid][j] - allocation[pid][j]
                      /\ vec[j] <= available[j]

\* ---- C5 -----------------------------------------------------------------
\* C5: requestResources(p, demand) returns true exactly when demand is within
\* the remaining claim of p (equality allowed), within available, and the
\* safety check on the hypothetical state returns true; otherwise false.
AdmissionDecision ==
    [][op' = "requestResources"
        => /\ ret' \in {"true", "false"}
           /\ ret' = "true" <=>
                 /\ \A j \in Res : vec'[j] <= max[pid'][j] - allocation[pid'][j]
                 /\ \A j \in Res : vec'[j] <= available[j]
                 /\ isSafeState(Hypothetical(Self, pid', vec'))]_vars

\* A request for exactly the remaining claim of a resource was granted: the
\* process now holds its whole claim of a resource it asked a unit of.
GrantedAtClaimBoundary ==
    /\ op = "requestResources"
    /\ ret = "true"
    /\ \E j \in Res : vec[j] > 0 /\ allocation[pid][j] = max[pid][j]

\* ---- C6 -----------------------------------------------------------------
\* C6: a release of more than the process holds of some resource ends in
\* InvalidReleaseError and changes nothing.
OverReleaseRejected ==
    [][(op' = "releaseResources" /\ \E j \in Res : vec'[j] > allocation[pid'][j])
        => /\ ret' = "InvalidReleaseError"
           /\ UNCHANGED state]_vars

\* ---- C7 -----------------------------------------------------------------
\* C7: every reachable state has 0 <= allocation[p][r] <= max[p][r].
AllocationBounds ==
    \A i \in Procs : \A j \in Res :
        0 <= allocation[i][j] /\ allocation[i][j] <= max[i][j]

\* ---- C8 -----------------------------------------------------------------
\* C8: in every reachable state, if isSafeState() returns true then some
\* order of all processes has each process's need covered by work at its
\* turn, work starting at available and growing by each allocation.
SafetySoundness == isSafeState(Self) => ExistsSafeOrder(Self)

\* isSafeState() returned true although some process cannot run on
\* available alone and has to wait for another to finish.
SafeWithWaitingProcess ==
    /\ op = "isSafeState"
    /\ ret = "true"
    /\ \E i \in Procs : \E j \in Res : max[i][j] - allocation[i][j] > available[j]

\* ---- C9 -----------------------------------------------------------------
\* C9: in a state with 0 <= allocation <= max and available >= 0, if some
\* safe order of all processes exists then isSafeState() returns true.
SafetyCompleteness ==
    (WellFormed(Self) /\ ExistsSafeOrder(Self)) => isSafeState(Self)

\* isSafeState() returned true in a well-formed state whose only safe orders
\* run a higher-numbered process before process 0: a second pass is needed.
SafeOnlyOutOfIndexOrder ==
    /\ op = "isSafeState"
    /\ ret = "true"
    /\ WellFormed(Self)
    /\ ~SafeOrder(Self, [k \in Procs |-> k])
    /\ \E j \in Res : max[0][j] - allocation[0][j] > available[j]

\* ---- C10 ----------------------------------------------------------------
\* C10: a release of at most what the process holds, made in a state where
\* isSafeState() returns true, leaves a state where it returns true.
ReleaseMonotonicity ==
    [][(/\ op' = "releaseResources"
        /\ \A j \in Res : vec'[j] <= allocation[pid'][j]
        /\ isSafeState(Self))
        => isSafeState(SelfAfter)]_vars

\* ---- C11 ----------------------------------------------------------------
\* C11: serialised mutation.  In every interleaving of requestResources and
\* releaseResources calls of several threads, at most one call is between its
\* first read and its last write of the members; until it writes, the call
\* sees the manager as it found it; and when it returns, the manager and the
\* return value are those of running the whole call as one step on the
\* manager it found, so the run equals the sequential run of the calls in the
\* order they took the mutex.
SerialisedMutation ==
    /\ \A t \in Threads : \A u \in Threads :
          (t # u /\ pc[t] \in Critical) => pc[u] \notin Critical
    /\ \A t \in Threads :
          pc[t] \in {"check", "scan", "decide"} => Self = local[t].snap
    /\ \A t \in Threads :
          pc[t] = "unlock" => /\ Self = AtomicCall(t).after
                              /\ local[t].ret = AtomicCall(t).ret

\* One thread waits for the mutex while the other is half way through its
\* writes.
CallerWaitsDuringWrites ==
    \E t \in Threads : \E u \in Threads :
        /\ pc[t] = "lock"
        /\ mtx = u
        /\ pc[u] \in {"addback", "release"}
        /\ local[u].i = 1
        /\ local[u].vec[0] > 0

\* ---- C12 ----------------------------------------------------------------
\* C12: a granted request leaves completed[p] as it was before the call.
GrantKeepsCompleted ==
    [][(op' = "requestResources" /\ ret' = "true")
        => completed'[pid'] = completed[pid']]_vars

\* ---- C13 ----------------------------------------------------------------
\* C13: an isSafeState() call changes none of allocation, max, available,
\* resources and completed, and a call that directly follows another
\* isSafeState() call returns what that one returned.
SafeQueryReadOnly ==
    [][op' = "isSafeState"
        => /\ allocation' = allocation
           /\ max' = max
           /\ available' = available
           /\ resources' = resources
           /\ completed' = completed
           /\ (op = "isSafeState" => ret' = ret)]_vars

\* isSafeState() was the second call made on a manager that holds units,
\* and it found the state safe: its scan added allocations to work.
SafeQueryOnHeldUnits ==
    /\ op = "isSafeState"
    /\ ret = "true"
    /\ calls >= 2
    /\ \E i \in Procs : \E j \in Res : allocation[i][j] > 0

\* ---- C14 ----------------------------------------------------------------
\* C14: requests never wait.  Under fair scheduling every requestResources
\* call that was entered returns, a thread that has returned does not hold
\* the mutex (whichever return path it took), and every thread waiting for
\* the mutex gets it.
RequestsNeverWait ==
    /\ [](\A t \in Threads : pc[t] = "idle" => mtx # t)
    /\ \A t \in Threads : (local[t].op = "requestResources") ~> (pc[t] = "idle")
    /\ \A t \in Threads : (pc[t] = "lock") ~> (mtx = t)

\* A request waits for the mutex while another request is about to return
\* the denial of an unsafe state.
RequestWaitsBehindUnsafeDenial ==
    \E t \in Threads : \E u \in Threads :
        /\ local[t].op = "requestResources"
        /\ pc[t] = "lock"
        /\ mtx = u
        /\ local[u].op = "requestResources"
        /\ pc[u] = "unlock"
        /\ local[u].ret = "false"
        /\ local[u].temp # ZeroBanker

\* ---- C15 ----------------------------------------------------------------
\* C15: a request or release with a processId outside [0, numProcesses)
\* ends in UnknownProcessError and changes nothing.
UnknownProcessRejected ==
    [][(op' \in {"requestResources", "releaseResources"} /\ pid' \notin Procs)
        => /\ ret' = "UnknownProcessError"
           /\ UNCHANGED state]_vars

\* ---- C16 ----------------------------------------------------------------
\* C16: after construction and after every call, resources[r] is the sum
\* over all processes of allocation[p][r].
TotalAllocatedBookkeeping ==
    \A j \in Res : resources[j] = Held(Self, j)

\* ---- C17 ----------------------------------------------------------------
\* C17: an isSafeState() call that runs while one requestResources or
\* releaseResources call holds the mutex (the two being the only calls made so
\* far, and a release giving back no more than the process held) returns the
\* value of the safety check on the manager that call found or on the manager
\* that call leaves.
ConcurrentCheckSeesWholeState ==
    \A q \in Threads : \A t \in Threads :
        (/\ pc[q] = "q_return"
         /\ mtx = t
         /\ calls = 2
         /\ local[t].op = "releaseResources"
               => \A j \in Res :
                     local[t].vec[j] <= local[t].snap.allocation[local[t].processId][j])
            => local[q].ret \in {SafeValue(local[t].snap), SafeValue(AtomicCall(t).after)}

\* ---- C18 ----------------------------------------------------------------
\* C18: release notification.  A step raises the notification only inside
\* releaseResources, with the mutex held before and after the step, after the
\* last turn of the update loop, and once; after it the call changes neither
\* allocation nor available; a releaseResources call returns having raised it
\* exactly once, a requestResources call having raised it not at all.
ReleaseNotification ==
    [][\A t \in Threads :
          /\ local'[t].raised > local[t].raised
                => /\ local[t].op = "releaseResources"
                   /\ local'[t].raised = 1
                   /\ local[t].i = NumResources
                   /\ mtx = t /\ mtx' = t
          /\ local[t].raised > 0
                => /\ allocation' = allocation
                   /\ available' = available
          /\ (pc[t] = "unlock" /\ pc'[t] = "idle")
                => local[t].raised = IF local[t].op = "releaseResources" THEN 1 ELSE 0]_vars

\* A release of held units is about to return after its notification.
ReleaseNotified ==
    \E t \in Threads :
        /\ pc[t] = "unlock"
        /\ local[t].op = "releaseResources"
        /\ local[t].raised = 1
        /\ local[t].vec # ZeroVec

\* ---- C19 ----------------------------------------------------------------
\* C19: from a manager constructed safe, with 0 <= allocation <= max and
\* available >= 0, every state reached by requests and by releases of no
\* more than the process holds is one where isSafeState() returns true.
SafetyPreservedAlongRuns == isSafeState(Self)

\* A release of at least one unit followed a grant to another process, whose
\* completed flag is still set.
ReleaseAfterGrant ==
    /\ op = "releaseResources"
    /\ \E j \in Res : vec[j] > 0
    /\ \E i \in Procs : i # pid /\ completed[i]

\* ---- C20 ----------------------------------------------------------------
\* C20: with the capacity of every resource fixed at construction (here
\* MaxAvail units), the units held by all processes together never exceed
\* it, whatever requests are granted and holdings released.
NoOverCommitment == \A j \in Res : Held(Self, j) <= MaxAvail

====
